---------------------------- MODULE Spec2Model ----------------------------
(***************************************************************************)
(* A model of nanodl's GPT4 module (src/nanodl/src/models/gpt4.py):        *)
(* the autoregressive generation loops (GPT4.generate and                  *)
(* GPT4.generate_batch), the causal mask and the decoder block wiring      *)
(* (GPT4Block, GPT4Decoder), the head split of SelfMultiHeadAttention and  *)
(* GPT4DataParallelTrainer: its epoch loop, evaluate and the checkpoint.   *)
(*                                                                         *)
(* One behaviour is one use of the library: Init picks the entry point     *)
(* (op) and its arguments, the actions are the steps of that entry point.  *)
(***************************************************************************)
EXTENDS Integers, Sequences, FiniteSets, TLC

VARIABLES
    op,               \* the entry point this behaviour exercises
    pc,               \* position inside the entry point
    x,                \* generate / generate_batch: the prefix argument
    temperature,      \* generate / generate_batch: the temperature argument
    deterministic,    \* generate / generate_batch: the deterministic argument
    decoder_input,    \* local: the matrix fed to the decoder (rows of tokens)
    output_sequence,  \* generate: the list of emitted tokens
    output_sequences, \* generate_batch: the (batch, max_length) buffer
    i,                \* number of loop iterations executed by this call
    next_token,       \* the token vector selected by the last iteration
    selected,         \* history: the token vectors selected, one per iteration
    decoder_passes,   \* number of decoder forward passes run by this call
    decoder_fn,       \* the decoder as a function: row -> last-position logits
    call,             \* 1 for the first call, 2 for its repetition
    results,          \* the values returned by the completed calls
    mask_args,        \* causal_mask: batch_size, destination_dim, source_dim
    mask,             \* causal_mask: the returned array
    blk_shape,        \* block / decoder: (batch, seq_len) of the input
    training,         \* block / decoder: the training argument
    drop_last_layer,  \* decoder: the drop_last_layer argument
    num_layers,       \* decoder: the number of blocks
    mask_arg,         \* block / decoder: the mask argument of this call
    blk_x,            \* block / decoder: the hidden state, as a term
    layer,            \* decoder: number of blocks applied by this call
    attn_masks,       \* the masks handed to the attention sub-layers
    attention_maps,   \* decoder: the attention tensors collected so far
    blk_results,      \* block / decoder: the completed calls
    num_epochs,       \* train: the num_epochs argument
    train_loader,     \* train: the batches, each one shard per device
    val_loader,       \* train: the validation loader, or None
    epoch,            \* train: the index of the current epoch
    batch_idx,        \* train: batches of train_loader consumed this epoch
    count,            \* train: the local count
    val_idx,          \* evaluate: batches of the loader consumed
    val_count,        \* evaluate: the local count
    val_loss,         \* train: the last validation loss
    state,            \* trainer: self.state, one replica per device
    best_val_loss,    \* trainer: self.best_val_loss
    weights_file,     \* the file named self.weights_filename
    evals,            \* history: evaluate passes completed
    saves,            \* history: the completed save_params calls
    test_loader,      \* evaluate: the test_loader argument
    eval_result,      \* the value a direct call of evaluate returned
    loaded_params,    \* what load_params returned to the caller
    loaded_state,     \* self.state of a trainer constructed with params_path
    query_shape,      \* attention_function: the shape of query, key and value
    self_num_heads,   \* attention_function: self.num_heads
    query,            \* attention_function: the query argument
    head_dim,         \* attention_function: the local head_dim
    dim_key,          \* attention_function: the local dim_key
    query_heads       \* attention_function: the local query_heads

genVars == <<x, temperature, deterministic, decoder_input, output_sequence,
             output_sequences, i, next_token, selected, decoder_passes,
             decoder_fn, call, results>>

maskVars == <<mask_args, mask>>

blkVars == <<blk_shape, training, drop_last_layer, num_layers, mask_arg,
             blk_x, layer, attn_masks, attention_maps, blk_results>>

\* What the caller of the trainer holds outside train.
callerVars == <<eval_result, loaded_params, loaded_state>>

trainVars == <<num_epochs, train_loader, val_loader, epoch, batch_idx, count,
               val_idx, val_count, val_loss, state, best_val_loss,
               weights_file, evals, saves, test_loader, callerVars>>

attVars == <<query_shape, self_num_heads, query, head_dim, dim_key,
             query_heads>>

nonGenVars == <<maskVars, blkVars, trainVars, attVars>>

nonMaskVars == <<genVars, blkVars, trainVars, attVars>>

nonBlkVars == <<genVars, maskVars, trainVars, attVars>>

nonTrainVars == <<genVars, maskVars, blkVars, attVars>>

nonAttVars == <<genVars, maskVars, blkVars, trainVars>>

vars == <<op, pc, genVars, maskVars, blkVars, trainVars, attVars>>

(***************************************************************************)
(* Hyperparameters of the model (fields of GPT4) and the bounds of the     *)
(* inputs.                                                                 *)
(***************************************************************************)
vocab_size == 3

max_length == 3

start_token == 0

end_token == vocab_size - 1

MaxPrefixLen == 2

num_heads == 2

MaxBatch == 2

MaxDim == 3

MaxLayers == 2

NumDevices == 2

MaxBatches == 1

MaxEpochs == 2

MaxLoss == 2

MaxHeads == 2

MaxHeadDim == 2

Vocab == 0 .. (vocab_size - 1)

\* Tokens used in prefixes: an ordinary token and the end token.
PrefixTokens == {1, end_token}

\* The values the temperature argument is drawn from: a negative value
\* reverses the order of the logits, 0 divides by zero, the default 1 keeps
\* the order.
TemperatureSet == {-1, 0, 1}

\* Rows of 1 .. MaxPrefixLen prefix tokens.
PrefixRows == UNION {[1 .. n -> PrefixTokens] : n \in 1 .. MaxPrefixLen}

\* An Optional[jnp.ndarray]: None, or a matrix given as its sequence of rows.
NoneX == [is_none |-> TRUE, rows |-> <<>>]

Given(rows) == [is_none |-> FALSE, rows |-> rows]

\* Arguments of generate: no prefix, a prefix of batch dimension 1, and
\* prefixes of batch dimension 0 and 2.
GeneratePrefixes ==
    {NoneX} \cup {Given(<<r>>) : r \in PrefixRows}
            \cup {Given(<<>>)}
            \cup {Given(<<r, r>>) : r \in {s \in PrefixRows : Len(s) = 1}}

\* Arguments of generate_batch: no prefix, and two-row prefixes whose rows
\* are equal or different.
BatchPrefixes ==
    {NoneX} \cup {Given(<<(<<1>>), (<<t>>)>>) : t \in PrefixTokens}

\* The last-position logits the decoder may produce for one row: the
\* largest logit is that of the start token, of an ordinary token or of the
\* end token.
LogitVectors ==
    {[v \in Vocab |-> IF v = h THEN 1 ELSE 0] : h \in {start_token, 1, end_token}}

(***************************************************************************)
(* Token selection (gpt4.py 469-476 and 510-518).                          *)
(***************************************************************************)
\* scaled_logits = last_token_logits / temperature.  For temperature # 0 the
\* quotient l / T and the product l * T order the logits the same way
\* (multiply by T * T > 0), so the product stands for the quotient.
ScaledLogits(logits, T) == [v \in Vocab |-> logits[v] * T]

\* jnp.argmax(jax.nn.softmax(scaled_logits)): softmax preserves the order,
\* argmax returns the first index of the maximum.  With temperature 0 every
\* quotient is inf or nan, softmax yields nan everywhere and argmax returns
\* the first nan, index 0.
Argmax(logits, T) ==
    IF T = 0 THEN 0
    ELSE LET s == ScaledLogits(logits, T)
         IN  CHOOSE v \in Vocab :
                 /\ \A w \in Vocab : s[w] <= s[v]
                 /\ \A w \in Vocab : w < v => s[w] < s[v]

\* The tokens one row may get: the argmax when deterministic, and otherwise
\* what jax.random.categorical returns under the key PRNGKey(int(time.time())),
\* which may be any token.
TokenChoices(det, logits, T) ==
    IF det THEN {Argmax(logits, T)} ELSE Vocab

\* A plausible slip: the decoder is run in training mode, so that dropout
\* makes its output for a row differ from one pass to the next.
NewRowsForget(rows) == {rows[b] : b \in DOMAIN rows}

\* The rows of the decoder input the decoder has not been run on yet.
NewRows(rows) == {rows[b] : b \in DOMAIN rows} \ DOMAIN decoder_fn

\* x.shape[0]
BatchDim(px) == Len(px.rows)

(***************************************************************************)
(* The state before any entry point has run.                               *)
(***************************************************************************)
GenIdle ==
    /\ x = NoneX
    /\ temperature = 1
    /\ deterministic = FALSE
    /\ decoder_input = <<>>
    /\ output_sequence = <<>>
    /\ output_sequences = <<>>
    /\ i = 0
    /\ next_token = <<>>
    /\ selected = <<>>
    /\ decoder_passes = 0
    /\ decoder_fn = <<>>
    /\ call = 1
    /\ results = <<>>

MaskIdle ==
    /\ mask_args = [batch_size |-> 0, destination_dim |-> 0, source_dim |-> 0]
    /\ mask = <<>>

BlkIdle ==
    /\ blk_shape = <<0, 0>>
    /\ training = FALSE
    /\ drop_last_layer = FALSE
    /\ num_layers = 0
    /\ mask_arg = NoneX
    /\ blk_x = ""
    /\ layer = 0
    /\ attn_masks = <<>>
    /\ attention_maps = <<>>
    /\ blk_results = <<>>

\* jax.local_devices()
Devices == 0 .. (NumDevices - 1)

\* The contents a shard of a batch may have.
ShardData == {1, 2}

\* The values a mean loss may take.
LossValues == 1 .. MaxLoss

\* float("inf"): larger than every loss.
Infinity == MaxLoss + 1

\* No file of that name.
NoFile == [exists |-> FALSE, complete |-> FALSE, content |-> <<>>]

\* Line 574: model.init returns a parameter tree whose leaves carry no
\* device axis.  A tree is the number of leading device axes of its leaves
\* and its value.
init_params == [device_axes |-> 0, value |-> <<>>]

\* Lines 573-584 without params_path: one freshly initialised state,
\* replicated onto every device.  A replica is the list of the shards whose
\* updates it has absorbed.
create_train_state == [d \in Devices |-> <<>>]

TrainIdle ==
    /\ num_epochs = 0
    /\ train_loader = <<>>
    /\ val_loader = [is_none |-> TRUE, len |-> 0]
    /\ epoch = 0
    /\ batch_idx = 0
    /\ count = 0
    /\ val_idx = 0
    /\ val_count = 0
    /\ val_loss = 0
    /\ state = create_train_state
    /\ best_val_loss = Infinity
    /\ weights_file = NoFile
    /\ evals = 0
    /\ saves = <<>>
    /\ test_loader = [len |-> 0]
    /\ eval_result = 0
    /\ loaded_params = init_params
    /\ loaded_state = <<>>

AttIdle ==
    /\ query_shape = <<0, 0, 0>>
    /\ self_num_heads = 1
    /\ query = <<>>
    /\ head_dim = 0
    /\ dim_key = 0
    /\ query_heads = <<>>

\* A caller invokes generate (gpt4.py 444-447) with some arguments.
InitGenerate ==
    /\ op = "generate"
    /\ pc = "call"
    /\ x \in GeneratePrefixes
    /\ temperature \in TemperatureSet
    /\ deterministic \in BOOLEAN
    /\ decoder_input = <<>>
    /\ output_sequence = <<>>
    /\ output_sequences = <<>>
    /\ i = 0
    /\ next_token = <<>>
    /\ selected = <<>>
    /\ decoder_passes = 0
    /\ decoder_fn = <<>>
    /\ call = 1
    /\ results = <<>>
    /\ MaskIdle
    /\ BlkIdle
    /\ TrainIdle
    /\ AttIdle

\* A caller invokes generate_batch (gpt4.py 488-491) with some arguments.
InitGenerateBatch ==
    /\ op = "generate_batch"
    /\ pc = "call"
    /\ x \in BatchPrefixes
    /\ temperature \in TemperatureSet
    /\ deterministic \in BOOLEAN
    /\ decoder_input = <<>>
    /\ output_sequence = <<>>
    /\ output_sequences = <<>>
    /\ i = 0
    /\ next_token = <<>>
    /\ selected = <<>>
    /\ decoder_passes = 0
    /\ decoder_fn = <<>>
    /\ call = 1
    /\ results = <<>>
    /\ MaskIdle
    /\ BlkIdle
    /\ TrainIdle
    /\ AttIdle

(***************************************************************************)
(* GPT4.generate (gpt4.py 444-485).                                        *)
(***************************************************************************)
\* A plausible slip: the assertion only rejects an empty batch.
BatchSizeIsOneLoose(px) == px.is_none \/ BatchDim(px) >= 1

\* Lines 460-461: if x is not None: assert x.shape[0] == 1
BatchSizeIsOne(px) == px.is_none \/ BatchDim(px) = 1

\* A plausible slip: an off-by-one loop bound.
GenerateInRangeInclusive(k) == k <= max_length

\* Line 467: for _ in range(self.max_length), k iterations done so far.
GenerateInRange(k) == k < max_length

\* A plausible slip: the end token does not stop the loop.
GenerateBreakNever(tok) == FALSE

\* Line 482: if next_token.item() == self.end_token: break
GenerateBreak(tok) == tok = end_token

\* A plausible slip: the new token is put in front of the decoder input.
ConcatFront(rows, tok) == [b \in DOMAIN rows |-> <<tok[b]>> \o rows[b]]

\* Line 480 (and 521): jnp.concatenate([decoder_input, column], axis=1),
\* one more token at the end of every row.
ConcatAxis1(rows, tok) == [b \in DOMAIN rows |-> rows[b] \o <<tok[b]>>]

\* Lines 460-464: the batch-size assertion and the initial locals.
GenerateEnter ==
    /\ op = "generate"
    /\ pc = "call"
    /\ IF ~BatchSizeIsOne(x)
       THEN /\ pc' = "failed"
            /\ UNCHANGED <<decoder_input, output_sequence>>
       ELSE /\ pc' = "loop"
            /\ decoder_input' =
                   IF x.is_none THEN <<(<<start_token>>)>> ELSE x.rows
            /\ output_sequence' = <<>>
    /\ i' = 0
    /\ next_token' = <<>>
    /\ selected' = <<>>
    /\ decoder_passes' = 0
    /\ UNCHANGED nonGenVars
    /\ UNCHANGED <<op, x, temperature, deterministic, output_sequences,
                   decoder_fn, call, results>>

\* Lines 467-483: one iteration of the decoding loop.  The decoder is a
\* function of its input (training=False): the logits of a row it has not
\* seen are arbitrary, those of a row it has seen are the ones it produced
\* before.  Only the greedy branch looks at them.
GenerateStep ==
    /\ op = "generate"
    /\ pc = "loop"
    /\ GenerateInRange(i)
    /\ \E f \in [(IF deterministic THEN NewRows(decoder_input) ELSE {})
                    -> LogitVectors] :
         LET fn == f @@ decoder_fn
         IN  \E tok \in TokenChoices(deterministic, fn[decoder_input[1]],
                                     temperature) :
               /\ decoder_fn' = fn
               /\ next_token' = <<tok>>
               /\ output_sequence' = Append(output_sequence, tok)
               /\ decoder_input' = ConcatAxis1(decoder_input, <<tok>>)
               /\ selected' = Append(selected, <<tok>>)
               /\ pc' = IF GenerateBreak(tok) THEN "break" ELSE "loop"
    /\ decoder_passes' = decoder_passes + 1
    /\ i' = i + 1
    /\ UNCHANGED nonGenVars
    /\ UNCHANGED <<op, x, temperature, deterministic, output_sequences,
                   call, results>>

\* Line 485: the loop is left by break or by exhausting range(max_length).
GenerateReturn ==
    /\ op = "generate"
    /\ \/ pc = "break"
       \/ pc = "loop" /\ ~GenerateInRange(i)
    /\ pc' = "done"
    /\ results' = Append(results, [out |-> output_sequence, steps |-> i])
    /\ UNCHANGED nonGenVars
    /\ UNCHANGED <<op, x, temperature, deterministic, decoder_input,
                   output_sequence, output_sequences, i, next_token,
                   selected, decoder_passes, decoder_fn, call>>

(***************************************************************************)
(* GPT4.generate_batch (gpt4.py 488-526).                                  *)
(***************************************************************************)
\* Lines 504-506: batch size, initial decoder input and the zero buffer.
GenerateBatchEnter ==
    /\ op = "generate_batch"
    /\ pc = "call"
    /\ LET batch_size == IF x.is_none THEN 1 ELSE BatchDim(x)
       IN  /\ decoder_input' =
                  IF x.is_none THEN [b \in 1 .. batch_size |-> <<start_token>>]
                  ELSE x.rows
           /\ output_sequences' =
                  [b \in 1 .. batch_size |-> [k \in 1 .. max_length |-> 0]]
    /\ pc' = "loop"
    /\ i' = 0
    /\ next_token' = <<>>
    /\ selected' = <<>>
    /\ decoder_passes' = 0
    /\ UNCHANGED nonGenVars
    /\ UNCHANGED <<op, x, temperature, deterministic, output_sequence,
                   decoder_fn, call, results>>

\* Line 508: for i in range(self.max_length), k iterations done so far.
BatchInRange(k) == k < max_length

\* A plausible slip: leave the loop as soon as any row emits end_token.
BatchBreakAny(tok) == \E b \in DOMAIN tok : tok[b] = end_token

\* Line 523: jnp.all(next_token == self.end_token)
BatchBreak(tok) == \A b \in DOMAIN tok : tok[b] = end_token

\* A plausible slip: a row that already emitted end_token is no longer written.
SetColumnMasked(buf, k, tok) ==
    [b \in DOMAIN buf |->
        IF \E j \in 1 .. (k - 1) : buf[b][j] = end_token
        THEN buf[b] ELSE [buf[b] EXCEPT ![k] = tok[b]]]

\* Line 520: output_sequences.at[:, i].set(next_token); column i of the code
\* is index k = i + 1 here.
SetColumn(buf, k, tok) ==
    [b \in DOMAIN buf |-> [buf[b] EXCEPT ![k] = tok[b]]]

\* Lines 508-524: one iteration of the batched decoding loop.
GenerateBatchStep ==
    /\ op = "generate_batch"
    /\ pc = "loop"
    /\ BatchInRange(i)
    /\ \E f \in [(IF deterministic THEN NewRows(decoder_input) ELSE {})
                    -> LogitVectors] :
         LET fn == f @@ decoder_fn
         IN  \E tok \in [DOMAIN decoder_input -> Vocab] :
               /\ \A b \in DOMAIN decoder_input :
                     tok[b] \in TokenChoices(deterministic,
                                             fn[decoder_input[b]], temperature)
               /\ decoder_fn' = fn
               /\ next_token' = tok
               /\ output_sequences' = SetColumn(output_sequences, i + 1, tok)
               /\ decoder_input' = ConcatAxis1(decoder_input, tok)
               /\ selected' = Append(selected, tok)
               /\ pc' = IF BatchBreak(tok) THEN "break" ELSE "loop"
    /\ decoder_passes' = decoder_passes + 1
    /\ i' = i + 1
    /\ UNCHANGED nonGenVars
    /\ UNCHANGED <<op, x, temperature, deterministic, output_sequence,
                   call, results>>

\* Line 526: return output_sequences.
GenerateBatchReturn ==
    /\ op = "generate_batch"
    /\ \/ pc = "break"
       \/ pc = "loop" /\ ~BatchInRange(i)
    /\ pc' = "done"
    /\ results' = Append(results, [out |-> output_sequences, steps |-> i])
    /\ UNCHANGED nonGenVars
    /\ UNCHANGED <<op, x, temperature, deterministic, decoder_input,
                   output_sequence, output_sequences, i, next_token,
                   selected, decoder_passes, decoder_fn, call>>

\* The caller repeats a deterministic call with identical arguments on the
\* same model (same parameters, hence the same decoder function).
RepeatCall ==
    /\ op \in {"generate", "generate_batch"}
    /\ pc = "done"
    /\ deterministic
    /\ call = 1
    /\ call' = 2
    /\ pc' = "call"
    /\ UNCHANGED nonGenVars
    /\ UNCHANGED <<op, x, temperature, deterministic, decoder_input,
                   output_sequence, output_sequences, i, next_token,
                   selected, decoder_passes, decoder_fn, results>>

(***************************************************************************)
(* GPT4Block.causal_mask (gpt4.py 267-290).  Arrays are functions of       *)
(* 0-based indices.                                                        *)
(***************************************************************************)
\* jnp.arange(n)
Arange(n) == [k \in 0 .. (n - 1) |-> k]

\* A plausible slip: a strict comparison, which also masks the diagonal.
Mask2DStrict(destination_dim, source_dim) ==
    [r \in 0 .. (destination_dim - 1) |->
        [c \in 0 .. (source_dim - 1) |->
            IF Arange(destination_dim)[r]
                   > Arange(source_dim)[c] - source_dim + destination_dim
            THEN 1 ELSE 0]]

\* Lines 283-286: idx_source is arange(destination_dim) as a column,
\* idx_destination is arange(source_dim); the comparison broadcasts to
\* (destination_dim, source_dim) and is cast to int32.
Mask2D(destination_dim, source_dim) ==
    [r \in 0 .. (destination_dim - 1) |->
        [c \in 0 .. (source_dim - 1) |->
            IF Arange(destination_dim)[r]
                   >= Arange(source_dim)[c] - source_dim + destination_dim
            THEN 1 ELSE 0]]

\* Lines 289-290: mask[None, None, :, :] broadcast to
\* (batch_size, num_heads, destination_dim, source_dim).
causal_mask(batch_size, destination_dim, source_dim) ==
    [b \in 0 .. (batch_size - 1) |->
        [h \in 0 .. (num_heads - 1) |->
            Mask2D(destination_dim, source_dim)]]

\* A caller invokes causal_mask with some sizes.
InitCausalMask ==
    /\ op = "causal_mask"
    /\ pc = "call"
    /\ mask_args \in [batch_size : 1 .. MaxBatch,
                      destination_dim : 1 .. MaxDim,
                      source_dim : 1 .. MaxDim]
    /\ mask = <<>>
    /\ GenIdle
    /\ BlkIdle
    /\ TrainIdle
    /\ AttIdle

CausalMaskCall ==
    /\ op = "causal_mask"
    /\ pc = "call"
    /\ mask' = causal_mask(mask_args.batch_size, mask_args.destination_dim,
                           mask_args.source_dim)
    /\ pc' = "done"
    /\ UNCHANGED <<op, mask_args>>
    /\ UNCHANGED nonMaskVars

(***************************************************************************)
(* GPT4Block.__call__ (gpt4.py 292-324) and GPT4Decoder.__call__           *)
(* (gpt4.py 360-388).  A tensor is the term that computes it: the          *)
(* sub-layers are functions of their inputs and of the parameters of the   *)
(* layer they belong to (and, in training mode, of the dropout rng, which  *)
(* is the same for the calls compared here).                               *)
(***************************************************************************)
Apply1(f, a) == f \o "(" \o a \o ")"

Apply2(f, a, b) == f \o "(" \o a \o "," \o b \o ")"

\* SelfMultiHeadAttention.__call__ (gpt4.py 102-106): the outputs and the
\* attention weights, both computed from the inputs and the mask.
Attention(name, inputs, m) ==
    [outputs |-> Apply2(name \o ".outputs", inputs, ToString(m)),
     weights |-> Apply2(name \o ".weights", inputs, ToString(m))]

\* nn.Dropout(rate)(x, deterministic): the identity when deterministic.
Dropout(name, a, det) == IF det THEN a ELSE Apply1(name, a)

\* x += attended_x
Add(a, b) == Apply2("add", a, b)

\* The masks a caller may pass: None, all ones, all zeros.
MaskArgs(shape) ==
    {NoneX} \cup
    {Given([b \in 0 .. (shape[1] - 1) |-> [h \in 0 .. (num_heads - 1) |->
              [r \in 0 .. (shape[2] - 1) |-> [c \in 0 .. (shape[2] - 1) |-> v]]]])
        : v \in {0, 1}}

\* A plausible slip: the causal mask is only built when no mask is passed.
BlockMaskKeep(shape, m) ==
    IF m.is_none THEN causal_mask(shape[1], shape[2], shape[2]) ELSE m.rows

\* Line 307: mask = self.causal_mask(x.shape[0], x.shape[1], x.shape[1])
BlockMask(shape, m) == causal_mask(shape[1], shape[2], shape[2])

\* A plausible slip: the output of attention2 is bound to another name and
\* line 317 still adds the output of attention1.
attended_x_first(att1, att2) == att1.outputs

\* Lines 315-317: attended_x is rebound to the output of attention2 before
\* x += attended_x adds it.
attended_x_second(att1, att2) == att2.outputs

\* Lines 307-324: the block named name applied to the hidden state a.
Block(name, shape, a, m, train) ==
    LET msk  == BlockMask(shape, m)
        n1   == Apply1(name \o ".norm1", a)
        att1 == Attention(name \o ".attention1", n1, msk)
        d1   == Dropout(name \o ".dropout1", n1, ~train)
        x1   == Add(d1, att1.outputs)
        n2   == Apply1(name \o ".norm2", x1)
        att2 == Attention(name \o ".attention2", n2, msk)
        d2   == Dropout(name \o ".dropout2", n2, ~train)
        x2   == Add(d2, attended_x_second(att1, att2))
        n3   == Apply1(name \o ".norm3", x2)
        ff   == Apply1(name \o ".feed_forward", n3)
        d3   == Dropout(name \o ".dropout3", ff, ~train)
        x3   == Add(d3, att2.outputs)
    IN  [x |-> x3, attention1 |-> att1.weights, attention2 |-> att2.weights,
         masks |-> <<msk, msk>>]

\* A caller applies one block to a hidden state of some shape.
InitBlock ==
    /\ op = "block"
    /\ pc = "call"
    /\ blk_shape \in (1 .. MaxBatch) \X (1 .. MaxDim)
    /\ training \in BOOLEAN
    /\ drop_last_layer = FALSE
    /\ num_layers = 1
    /\ mask_arg = NoneX
    /\ blk_x = ""
    /\ layer = 0
    /\ attn_masks = <<>>
    /\ attention_maps = <<>>
    /\ blk_results = <<>>
    /\ GenIdle
    /\ MaskIdle
    /\ TrainIdle
    /\ AttIdle

\* A caller applies a decoder of some depth to tokens of some shape.
InitDecoder ==
    /\ op = "decoder"
    /\ pc = "call"
    /\ blk_shape \in (1 .. MaxBatch) \X (1 .. MaxDim)
    /\ training \in BOOLEAN
    /\ drop_last_layer \in BOOLEAN
    /\ num_layers \in 1 .. MaxLayers
    /\ mask_arg = NoneX
    /\ blk_x = ""
    /\ layer = 0
    /\ attn_masks = <<>>
    /\ attention_maps = <<>>
    /\ blk_results = <<>>
    /\ GenIdle
    /\ MaskIdle
    /\ TrainIdle
    /\ AttIdle

\* GPT4Block.__call__ called on the hidden state "x" with some mask.
BlockCall ==
    /\ op = "block"
    /\ pc = "call"
    /\ \E m \in MaskArgs(blk_shape) :
         LET r == Block("block", blk_shape, "x", m, training)
         IN  /\ mask_arg' = m
             /\ blk_x' = r.x
             /\ attn_masks' = r.masks
             /\ attention_maps' = <<(<<r.attention1, r.attention2>>)>>
             /\ blk_results' = Append(blk_results,
                    [mask_arg |-> m, x |-> r.x, masks |-> r.masks,
                     attention_maps |-> <<(<<r.attention1, r.attention2>>)>>])
    /\ layer' = 1
    /\ pc' = "done"
    /\ UNCHANGED <<op, blk_shape, training, drop_last_layer, num_layers>>
    /\ UNCHANGED nonBlkVars

\* Lines 377-379: the embedding of the tokens "x" and the empty lists.
DecoderEnter ==
    /\ op = "decoder"
    /\ pc = "call"
    /\ \E m \in MaskArgs(blk_shape) : mask_arg' = m
    /\ blk_x' = Apply1("embedding", "x")
    /\ layer' = 0
    /\ attn_masks' = <<>>
    /\ attention_maps' = <<>>
    /\ pc' = "layers"
    /\ UNCHANGED <<op, blk_shape, training, drop_last_layer, num_layers,
                   blk_results>>
    /\ UNCHANGED nonBlkVars

\* Lines 380-383: one iteration of the loop over self.layers.
DecoderLayer ==
    /\ op = "decoder"
    /\ pc = "layers"
    /\ layer < num_layers
    /\ LET r == Block("layers_" \o ToString(layer), blk_shape, blk_x,
                      mask_arg, training)
       IN  /\ blk_x' = r.x
           /\ attn_masks' = attn_masks \o r.masks
           /\ attention_maps' =
                  Append(attention_maps, <<r.attention1, r.attention2>>)
    /\ layer' = layer + 1
    /\ UNCHANGED <<op, pc, blk_shape, training, drop_last_layer, num_layers,
                   mask_arg, blk_results>>
    /\ UNCHANGED nonBlkVars

\* Lines 385-388: the output projection unless it is dropped, and the return.
DecoderReturn ==
    /\ op = "decoder"
    /\ pc = "layers"
    /\ layer >= num_layers
    /\ LET out == IF ~drop_last_layer THEN Apply1("outputs", blk_x) ELSE blk_x
       IN  /\ blk_x' = out
           /\ blk_results' = Append(blk_results,
                  [mask_arg |-> mask_arg, x |-> out, masks |-> attn_masks,
                   attention_maps |-> attention_maps])
    /\ pc' = "done"
    /\ UNCHANGED <<op, blk_shape, training, drop_last_layer, num_layers,
                   mask_arg, layer, attn_masks, attention_maps>>
    /\ UNCHANGED nonBlkVars

\* The caller repeats the call on the same input, with some mask again.
RepeatBlockCall ==
    /\ op \in {"block", "decoder"}
    /\ pc = "done"
    /\ Len(blk_results) < 2
    /\ pc' = "call"
    /\ UNCHANGED <<op, blkVars>>
    /\ UNCHANGED nonBlkVars

(***************************************************************************)
(* GPT4DataParallelTrainer (gpt4.py 529-710).                              *)
(***************************************************************************)
\* A trainer is constructed (lines 547-555) and train is called with a list
\* of batches, a number of epochs and possibly a validation loader.
InitTrain ==
    /\ op = "train"
    /\ pc = "epoch"
    /\ num_epochs \in 0 .. MaxEpochs
    /\ train_loader \in UNION {[1 .. n -> [Devices -> ShardData]]
                                  : n \in 0 .. MaxBatches}
    /\ val_loader \in {[is_none |-> TRUE, len |-> 0]}
                      \cup {[is_none |-> FALSE, len |-> n] : n \in 0 .. MaxBatches}
    /\ epoch = 0
    /\ batch_idx = 0
    /\ count = 0
    /\ val_idx = 0
    /\ val_count = 0
    /\ val_loss = 0
    /\ state = create_train_state
    /\ best_val_loss = Infinity
    /\ weights_file = NoFile
    /\ evals = 0
    /\ saves = <<>>
    /\ test_loader = [len |-> 0]
    /\ eval_result = 0
    /\ loaded_params = init_params
    /\ loaded_state = <<>>
    /\ GenIdle
    /\ MaskIdle
    /\ BlkIdle
    /\ AttIdle

\* Lines 587-609 under pmap: every device computes the gradient on its own
\* shard and applies it to its own replica.
train_step(st, batch) == [d \in Devices |-> Append(st[d], batch[d])]

\* A plausible slip: the update is applied in place, device by device, and
\* the failure strikes after the first device.
train_step_partial(st, batch) ==
    [d \in Devices |-> IF d = 0 THEN Append(st[d], batch[d]) ELSE st[d]]

\* Line 631 when the call raises: the assignment to self.state is not
\* reached, self.state is the object it was.
train_step_raises(st, batch) == st

\* A plausible slip: the evaluation step applies an update like a train step.
evaluation_step_updates(st) == [d \in Devices |-> Append(st[d], 1)]

\* Lines 663-664 and 683: the step reads state.params and returns the loss
\* alone; self.state is not assigned.
evaluation_step(st) == st

\* A plausible slip: the last validation loss is kept, not the best one.
NewBestLast(loss, best) == loss

\* Lines 643-644: self.best_val_loss after the comparison.
NewBest(loss, best) == IF loss < best THEN loss ELSE best

\* Line 695: self.state.params of the replicated state (lines 584 and 553):
\* every leaf is stacked over the devices, one leading device axis.
StateParams(st) == [device_axes |-> 1, value |-> st]

\* The parameter tree one device holds of the replicated state.
PerDevice(st, d) == [device_axes |-> 0, value |-> st[d]]

\* Lines 708-710: the pickled tree, as it was dumped.
load_params(file) == file.content

\* Line 584: every device gets a copy of the whole tree it is given.
device_put_replicated(tree) == [d \in Devices |-> tree]

\* Lines 576-584 with params_path: the loaded tree replaces the initialised
\* one and is replicated.
create_train_state_loaded(file) == device_put_replicated(load_params(file))

\* Lines 574 and 601: apply takes a tree of the structure and shapes init
\* returns, whose leaves have no device axis.
ModelAccepts(tree) == tree.device_axes = init_params.device_axes

\* Lines 623-625: the head of the epoch loop.
TrainEpochBegin ==
    /\ op = "train"
    /\ pc = "epoch"
    /\ epoch < num_epochs
    /\ batch_idx' = 0
    /\ count' = 0
    /\ pc' = "train_loop"
    /\ UNCHANGED <<op, num_epochs, train_loader, val_loader, epoch, val_idx,
                   val_count, val_loss, state, best_val_loss, weights_file,
                   evals, saves, test_loader, callerVars>>
    /\ UNCHANGED nonTrainVars

\* Lines 626-635: one batch of the training loader.
TrainStep ==
    /\ op = "train"
    /\ pc = "train_loop"
    /\ batch_idx < Len(train_loader)
    /\ state' = train_step(state, train_loader[batch_idx + 1])
    /\ count' = count + 1
    /\ batch_idx' = batch_idx + 1
    /\ UNCHANGED <<op, pc, num_epochs, train_loader, val_loader, epoch,
                   val_idx, val_count, val_loss, best_val_loss, weights_file,
                   evals, saves, test_loader, callerVars>>
    /\ UNCHANGED nonTrainVars

\* Lines 627-633 raise (a batch that does not reshape, a device error): the
\* exception leaves train before self.state is assigned.
TrainStepFails ==
    /\ op = "train"
    /\ pc = "train_loop"
    /\ batch_idx < Len(train_loader)
    /\ state' = train_step_raises(state, train_loader[batch_idx + 1])
    /\ pc' = "failed"
    /\ UNCHANGED <<op, num_epochs, train_loader, val_loader, epoch, batch_idx,
                   count, val_idx, val_count, val_loss, best_val_loss,
                   weights_file, evals, saves, test_loader, callerVars>>
    /\ UNCHANGED nonTrainVars

\* Lines 637-641: the mean loss of the epoch (a ZeroDivisionError when the
\* loader yielded nothing), the test for a validation loader and the call
\* evaluate(val_loader).
TrainEpochLoss ==
    /\ op = "train"
    /\ pc = "train_loop"
    /\ batch_idx >= Len(train_loader)
    /\ IF count = 0
       THEN /\ pc' = "failed"
            /\ UNCHANGED <<epoch, test_loader>>
       ELSE IF val_loader.is_none
       THEN /\ pc' = "epoch"
            /\ epoch' = epoch + 1
            /\ UNCHANGED test_loader
       ELSE /\ pc' = "evaluate"
            /\ test_loader' = [len |-> val_loader.len]
            /\ UNCHANGED epoch
    /\ val_idx' = 0
    /\ val_count' = 0
    /\ UNCHANGED <<op, num_epochs, train_loader, val_loader, batch_idx, count,
                   val_loss, state, best_val_loss, weights_file, evals, saves,
                   callerVars>>
    /\ UNCHANGED nonTrainVars

\* Lines 676-677 of a call of evaluate made by the user of a trainer whose
\* train has returned.
EvaluateCall ==
    /\ op = "train"
    /\ pc = "done"
    /\ test_loader' \in {[len |-> n] : n \in 0 .. MaxBatches}
    /\ val_idx' = 0
    /\ val_count' = 0
    /\ pc' = "evaluate_direct"
    /\ UNCHANGED <<op, num_epochs, train_loader, val_loader, epoch, batch_idx,
                   count, val_loss, state, best_val_loss, weights_file, evals,
                   saves, callerVars>>
    /\ UNCHANGED nonTrainVars

\* Lines 678-685: one batch of the loader given to evaluate.
EvaluationStep ==
    /\ op = "train"
    /\ pc \in {"evaluate", "evaluate_direct"}
    /\ val_idx < test_loader.len
    /\ state' = evaluation_step(state)
    /\ val_idx' = val_idx + 1
    /\ val_count' = val_count + 1
    /\ UNCHANGED <<op, pc, num_epochs, train_loader, val_loader, epoch,
                   batch_idx, count, val_loss, best_val_loss, weights_file,
                   evals, saves, test_loader, callerVars>>
    /\ UNCHANGED nonTrainVars

\* Lines 679-683 raise: inside train the exception leaves train too.
EvaluationStepFails ==
    /\ op = "train"
    /\ pc \in {"evaluate", "evaluate_direct"}
    /\ val_idx < test_loader.len
    /\ pc' = IF pc = "evaluate" THEN "failed" ELSE "evaluate_failed"
    /\ UNCHANGED <<op, trainVars>>
    /\ UNCHANGED nonTrainVars

\* Lines 687-688 of a call made by the user: the mean loss is returned (a
\* ZeroDivisionError when the loader yielded nothing).
EvaluateReturn ==
    /\ op = "train"
    /\ pc = "evaluate_direct"
    /\ val_idx >= test_loader.len
    /\ IF val_count = 0
       THEN /\ pc' = "evaluate_failed"
            /\ UNCHANGED eval_result
       ELSE /\ eval_result' \in LossValues
            /\ pc' = "evaluated"
    /\ UNCHANGED <<op, num_epochs, train_loader, val_loader, epoch, batch_idx,
                   count, val_idx, val_count, val_loss, state, best_val_loss,
                   weights_file, evals, saves, test_loader, loaded_params,
                   loaded_state>>
    /\ UNCHANGED nonTrainVars

\* A plausible slip: the save is inside the if of line 643.
SaveOnImprovement(loss, best) == loss < best

\* Lines 643-646: save_params is called after the if, not inside it.
SaveReached(loss, best) == TRUE

\* Lines 687-688 and 641-645: evaluate returns the mean loss (a
\* ZeroDivisionError when the loader yielded nothing) and train compares it
\* with best_val_loss.
TrainValidate ==
    /\ op = "train"
    /\ pc = "evaluate"
    /\ val_idx >= test_loader.len
    /\ IF val_count = 0
       THEN /\ pc' = "failed"
            /\ UNCHANGED <<val_loss, best_val_loss, evals, epoch>>
       ELSE \E loss \in LossValues :
              /\ val_loss' = loss
              /\ evals' = evals + 1
              /\ best_val_loss' = NewBest(loss, best_val_loss)
              /\ IF SaveReached(loss, best_val_loss)
                 THEN /\ pc' = "save"
                      /\ UNCHANGED epoch
                 ELSE /\ pc' = "epoch"
                      /\ epoch' = epoch + 1
    /\ UNCHANGED <<op, num_epochs, train_loader, val_loader, batch_idx, count,
                   val_idx, val_count, state, weights_file, saves, test_loader,
                   callerVars>>
    /\ UNCHANGED nonTrainVars

\* Lines 694-695: the file is opened for writing and self.state.params, the
\* parameters of all replicas, is pickled into it.
SaveParams ==
    /\ op = "train"
    /\ pc = "save"
    /\ weights_file' = [exists |-> TRUE, complete |-> TRUE,
                        content |-> StateParams(state)]
    /\ saves' = Append(saves, [epoch |-> epoch, evals |-> evals,
                               val_loss |-> val_loss,
                               best_val_loss |-> best_val_loss,
                               params |-> StateParams(state)])
    /\ epoch' = epoch + 1
    /\ pc' = "epoch"
    /\ UNCHANGED <<op, num_epochs, train_loader, val_loader, batch_idx, count,
                   val_idx, val_count, val_loss, state, best_val_loss, evals,
                   test_loader, callerVars>>
    /\ UNCHANGED nonTrainVars

\* Lines 694-695 raise: open fails and the file is untouched, or the dump
\* fails after open(..., 'wb') has truncated the file.
SaveParamsFails ==
    /\ op = "train"
    /\ pc = "save"
    /\ \/ UNCHANGED weights_file
       \/ weights_file' = [exists |-> TRUE, complete |-> FALSE, content |-> <<>>]
    /\ pc' = "failed"
    /\ UNCHANGED <<op, num_epochs, train_loader, val_loader, epoch, batch_idx,
                   count, val_idx, val_count, val_loss, state, best_val_loss,
                   evals, saves, test_loader, callerVars>>
    /\ UNCHANGED nonTrainVars

\* Line 647: the epochs are exhausted.
TrainReturn ==
    /\ op = "train"
    /\ pc = "epoch"
    /\ epoch >= num_epochs
    /\ pc' = "done"
    /\ UNCHANGED <<op, trainVars>>
    /\ UNCHANGED nonTrainVars

\* After train has returned the checkpoint is used as the class docstring
\* shows (lines 50-54) and as the constructor allows (lines 546-555): a
\* second trainer is constructed with params_path naming the file, and
\* load_params is called on it.  Without a file open raises.
LoadCheckpoint ==
    /\ op = "train"
    /\ pc = "done"
    /\ IF weights_file.exists /\ weights_file.complete
       THEN /\ loaded_state' = create_train_state_loaded(weights_file)
            /\ loaded_params' = load_params(weights_file)
            /\ pc' = "loaded"
       ELSE /\ pc' = "load_failed"
            /\ UNCHANGED <<loaded_state, loaded_params>>
    /\ UNCHANGED <<op, num_epochs, train_loader, val_loader, epoch, batch_idx,
                   count, val_idx, val_count, val_loss, state, best_val_loss,
                   weights_file, evals, saves, test_loader, eval_result>>
    /\ UNCHANGED nonTrainVars

(***************************************************************************)
(* SelfMultiHeadAttention.attention_function (gpt4.py 108-126).  An array  *)
(* is a function of tuples of 0-based indices; a shape is a tuple of       *)
(* sizes.                                                                  *)
(***************************************************************************)
Range(s) == {s[k] : k \in DOMAIN s}

Last(s) == s[Len(s)]

Front(s) == SubSeq(s, 1, Len(s) - 1)

\* The largest size of a shape.
MaxSize(shape) ==
    CHOOSE m \in Range(shape) : \A n \in Range(shape) : n <= m

\* The index tuples of an array of the given shape.
Indices(shape) ==
    {idx \in [DOMAIN shape -> 0 .. (MaxSize(shape) - 1)] :
        \A k \in DOMAIN shape : idx[k] < shape[k]}

\* The position of the element idx in the row-major (C order) layout of an
\* array of the given shape, the order jnp.reshape reads and writes in.
RECURSIVE RowMajor(_, _)
RowMajor(idx, shape) ==
    IF Len(idx) = 0
    THEN 0
    ELSE RowMajor(Front(idx), Front(shape)) * Last(shape) + Last(idx)

\* The index tuple of the element at position n of the row-major layout.
RECURSIVE Unravel(_, _)
Unravel(n, shape) ==
    IF Len(shape) = 0
    THEN <<>>
    ELSE Append(Unravel(n \div Last(shape), Front(shape)), n % Last(shape))

\* jnp.reshape(t, to) of an array t of shape from: the elements keep their
\* row-major position.
Reshape(t, from, to) ==
    [idx \in Indices(to) |-> t[Unravel(RowMajor(idx, to), from)]]

\* An array whose elements are all different: each is named by its index.
Tensor(shape) == [idx \in Indices(shape) |-> idx]

\* attention_function is called (lines 105 and 108) on a query, key and
\* value of shape (batch, seq, hidden_dim), hidden_dim a multiple of
\* self.num_heads.
InitAttention ==
    /\ op = "attention"
    /\ pc = "call"
    /\ self_num_heads \in 1 .. MaxHeads
    /\ \E b \in 1 .. MaxBatch, s \in 1 .. MaxDim, d \in 1 .. MaxHeadDim :
          query_shape = <<b, s, self_num_heads * d>>
    /\ query = Tensor(query_shape)
    /\ head_dim = 0
    /\ dim_key = 0
    /\ query_heads = <<>>
    /\ GenIdle
    /\ MaskIdle
    /\ BlkIdle
    /\ TrainIdle

\* Lines 109-119: head_dim, dim_key and the split of the query into heads;
\* key and value, of the same shape, are split by the same reshape, and the
\* scores are divided by jnp.sqrt(dim_key).
AttentionFunction ==
    /\ op = "attention"
    /\ pc = "call"
    /\ LET input_length == query_shape[2]
           hd == query_shape[3] \div self_num_heads
       IN  /\ head_dim' = hd
           /\ dim_key' = query_shape[3]
           /\ query_heads' =
                  Reshape(query, query_shape,
                          <<query_shape[1], self_num_heads, input_length, hd>>)
    /\ pc' = "done"
    /\ UNCHANGED <<op, query_shape, self_num_heads, query>>
    /\ UNCHANGED nonAttVars

Init ==
    \/ InitGenerate
    \/ InitGenerateBatch
    \/ InitCausalMask
    \/ InitBlock
    \/ InitDecoder
    \/ InitTrain
    \/ InitAttention

Next ==
    \/ GenerateEnter
    \/ GenerateStep
    \/ GenerateReturn
    \/ GenerateBatchEnter
    \/ GenerateBatchStep
    \/ GenerateBatchReturn
    \/ RepeatCall
    \/ CausalMaskCall
    \/ BlockCall
    \/ DecoderEnter
    \/ DecoderLayer
    \/ DecoderReturn
    \/ RepeatBlockCall
    \/ TrainEpochBegin
    \/ TrainStep
    \/ TrainStepFails
    \/ TrainEpochLoss
    \/ EvaluationStep
    \/ EvaluationStepFails
    \/ TrainValidate
    \/ SaveParams
    \/ SaveParamsFails
    \/ TrainReturn
    \/ EvaluateCall
    \/ EvaluateReturn
    \/ LoadCheckpoint
    \/ AttentionFunction

Spec == Init /\ [][Next]_vars

\* The steps of a use of generate alone.
GenerateNext ==
    \/ GenerateEnter
    \/ GenerateStep
    \/ GenerateReturn
    \/ RepeatCall

\* A use of generate that is run to its end: the loop is plain synchronous
\* Python with nothing to wait for, so a step that can be taken is taken.
FairSpec == InitGenerate /\ [][GenerateNext]_vars /\ WF_vars(GenerateNext)

(***************************************************************************)
(* Properties of generate.                                                 *)
(***************************************************************************)
\* The call has passed its entry code: its locals are those of this call.
InCall == pc \in {"loop", "break", "done"}

\* The seed row of generate: the prefix row, or the single start token.
Seed == IF x.is_none THEN <<start_token>> ELSE x.rows[1]

C1_Safe ==
    (op = "generate" /\ InCall) =>
        /\ i <= max_length
        /\ decoder_passes <= max_length
        /\ pc = "loop" => end_token \notin Range(output_sequence)
        /\ pc = "done" => Last(results).steps <= max_length

\* C1: generate terminates.  At most max_length decoding steps are ever
\* executed, the loop is never at its head again once an end_token has been
\* emitted (so no step follows it), and every call whose prefix passes the
\* batch-size check reaches DONE.
C1_GenerateTerminates ==
    /\ []C1_Safe
    /\ (op = "generate" /\ pc = "call" /\ BatchSizeIsOne(x)) ~> (pc = "done")

\* A call that stopped on end_token before max_length steps.
C1_Witness ==
    /\ op = "generate"
    /\ pc = "done"
    /\ i < max_length
    /\ Last(output_sequence) = end_token

\* C2 as stated: with a prefix, the decoder input never exceeds max_length
\* tokens, i.e. at most max_length - p tokens are emitted.
C2_Original ==
    (op = "generate" /\ InCall /\ ~x.is_none) =>
        /\ Len(decoder_input[1]) <= max_length
        /\ Len(output_sequence) <= max_length - Len(x.rows[1])

\* C2 amended: with a prefix of length p >= 1, at most max_length tokens are
\* emitted whatever p is, so the decoder input never exceeds p + max_length
\* tokens.
C2_Amended ==
    (op = "generate" /\ InCall /\ ~x.is_none) =>
        /\ Len(output_sequence) <= max_length
        /\ Len(decoder_input[1]) <= Len(x.rows[1]) + max_length

\* A seeded call that emitted max_length tokens: more than max_length - p.
C2_Witness ==
    /\ op = "generate"
    /\ pc = "done"
    /\ ~x.is_none
    /\ Len(x.rows[1]) = MaxPrefixLen
    /\ Len(Last(results).out) = max_length

\* C3: after every step the decoder input is the seed followed by the
\* emitted tokens in emission order, one token is emitted per step, the
\* returned tuple is the emitted tokens alone, and end_token can only be
\* the last returned token.
C3_SeedThenEmitted ==
    (op = "generate" /\ InCall) =>
        /\ decoder_input = <<Seed \o output_sequence>>
        /\ Len(output_sequence) = i
        /\ Len(selected) = i
        /\ \A k \in 1 .. i : output_sequence[k] = selected[k][1]
        /\ \A k \in 1 .. i : output_sequence[k] = end_token => k = i
        /\ pc = "done" => Last(results).out = output_sequence

\* A seeded call that returned several tokens, the last one end_token.
C3_Witness ==
    /\ op = "generate"
    /\ pc = "done"
    /\ ~x.is_none
    /\ Len(Last(results).out) >= 2
    /\ Last(Last(results).out) = end_token

C5_Deterministic ==
    (deterministic /\ Len(results) = 2) =>
        /\ results[1].out = results[2].out
        /\ results[1].steps = results[2].steps

\* Both calls of a deterministic generate_batch returned, after several steps.
C5_Witness ==
    /\ op = "generate_batch"
    /\ deterministic
    /\ Len(results) = 2
    /\ results[2].steps >= 2
    /\ BatchDim(x) = 2

(***************************************************************************)
(* Properties of generate_batch.                                           *)
(***************************************************************************)
\* Row b has emitted end_token at one of the steps executed so far.
Finished(b) == \E k \in 1 .. i : selected[k][b] = end_token

\* C6: the batched loop is left before max_length steps only at a step
\* where every row selected end_token; while some row has never emitted
\* end_token the loop runs all max_length steps.
C6_GlobalEarlyStop ==
    (op = "generate_batch" /\ pc \in {"break", "done"}) =>
        /\ i < max_length => \A b \in DOMAIN next_token : next_token[b] = end_token
        /\ (\E b \in DOMAIN decoder_input : ~Finished(b)) => i = max_length

\* A batch of two rows that stopped early.
C6_Witness ==
    /\ op = "generate_batch"
    /\ pc = "done"
    /\ i < max_length
    /\ Len(next_token) = 2

\* The batch size of the call: 1 without a prefix.
BatchSize == IF x.is_none THEN 1 ELSE BatchDim(x)

\* C7: the buffer has shape (batch, max_length); column k of an executed
\* step holds the tokens selected at that step for every row, finished or
\* not, the other columns hold 0, every row keeps being fed to the decoder,
\* and the buffer is what is returned.
C7_BufferColumns ==
    (op = "generate_batch" /\ InCall) =>
        /\ DOMAIN output_sequences = 1 .. BatchSize
        /\ \A b \in 1 .. BatchSize :
              /\ DOMAIN output_sequences[b] = 1 .. max_length
              /\ \A k \in 1 .. i : output_sequences[b][k] = selected[k][b]
              /\ \A k \in (i + 1) .. max_length : output_sequences[b][k] = 0
              /\ Len(decoder_input[b]) = i + (IF x.is_none THEN 1 ELSE Len(x.rows[b]))
              /\ \A k \in 1 .. i :
                    decoder_input[b][Len(decoder_input[b]) - i + k] = selected[k][b]
        /\ pc = "done" => Last(results).out = output_sequences

\* A row that emitted end_token and was written again at a later step.
C7_Witness ==
    /\ op = "generate_batch"
    /\ pc = "done"
    /\ \E b \in 1 .. BatchSize : \E k \in 1 .. (i - 1) :
          /\ output_sequences[b][k] = end_token
          /\ output_sequences[b][k + 1] # end_token

(***************************************************************************)
(* Properties of the causal mask and of the decoder block.                 *)
(***************************************************************************)
\* C8: causal_mask(batch, D, S) has shape (batch, num_heads, D, S); entry
\* (b, h, r, c) is 1 iff r >= c - S + D and 0 otherwise, for every b and h;
\* when S = D the entry is 1 iff c <= r, so every entry with r < c is 0.
C8_CausalMask ==
    (op = "causal_mask" /\ pc = "done") =>
        LET D == mask_args.destination_dim
            S == mask_args.source_dim
        IN  /\ DOMAIN mask = 0 .. (mask_args.batch_size - 1)
            /\ \A b \in DOMAIN mask :
                  /\ DOMAIN mask[b] = 0 .. (num_heads - 1)
                  /\ \A h \in DOMAIN mask[b] :
                        /\ DOMAIN mask[b][h] = 0 .. (D - 1)
                        /\ \A r \in 0 .. (D - 1) :
                              /\ DOMAIN mask[b][h][r] = 0 .. (S - 1)
                              /\ \A c \in 0 .. (S - 1) :
                                    /\ mask[b][h][r][c] \in {0, 1}
                                    /\ mask[b][h][r][c] = 1 <=> r >= c - S + D
                                    /\ S = D => (mask[b][h][r][c] = 1 <=> c <= r)
                                    /\ (S = D /\ r < c) => mask[b][h][r][c] = 0

\* A square mask with a diagonal, a masked future entry and two batch rows.
C8_Witness ==
    /\ op = "causal_mask"
    /\ pc = "done"
    /\ mask_args.batch_size = 2
    /\ mask_args.destination_dim = mask_args.source_dim
    /\ mask_args.source_dim >= 2
    /\ mask[1][1][0][1] = 0
    /\ mask[1][1][1][1] = 1

\* C9: whatever mask is passed to GPT4Block or GPT4Decoder, every attention
\* sub-layer receives the causal mask built for the current sequence
\* length, and calls that differ only in the mask return the same outputs.
C9_MaskDiscarded ==
    (op \in {"block", "decoder"}) =>
        LET cm == causal_mask(blk_shape[1], blk_shape[2], blk_shape[2])
        IN  /\ \A k \in DOMAIN attn_masks : attn_masks[k] = cm
            /\ \A k \in DOMAIN blk_results :
                  /\ Len(blk_results[k].masks) = 2 * num_layers
                  /\ \A j \in DOMAIN blk_results[k].masks :
                        blk_results[k].masks[j] = cm
                  /\ blk_results[k].x = blk_results[1].x
                  /\ blk_results[k].attention_maps = blk_results[1].attention_maps

\* Two completed decoder calls on the same input with different masks, one
\* of them a mask that is not the causal one.
C9_Witness ==
    /\ op = "decoder"
    /\ Len(blk_results) = 2
    /\ num_layers >= 2
    /\ blk_shape[2] >= 2
    /\ blk_results[1].mask_arg # blk_results[2].mask_arg
    /\ ~blk_results[2].mask_arg.is_none
    /\ blk_results[2].mask_arg.rows #
           causal_mask(blk_shape[1], blk_shape[2], blk_shape[2])

C11_ReplicasIdentical ==
    op = "train" => \A d1, d2 \in Devices : state[d1] = state[d2]

\* C12: a trainer constructed with params_path naming the file written by
\* save_params holds on every device the parameter tree that device held in
\* the saving trainer, and load_params returns a tree the model accepts where
\* it accepts a freshly initialised one.
C12_RoundTrip ==
    (op = "train" /\ pc = "loaded") =>
        /\ \A d \in Devices : loaded_state[d] = PerDevice(state, d)
        /\ ModelAccepts(loaded_params)

RECURSIVE Replay(_)
Replay(k) ==
    IF k = 0
    THEN create_train_state
    ELSE train_step(Replay(k - 1),
                    train_loader[((k - 1) % Len(train_loader)) + 1])

\* C14: when a train step, an evaluation step or a save raises inside train,
\* nothing more runs (no retry) and the training state is the one returned
\* by the last completed train step, the initial one if none completed.
C14_FailureKeepsState ==
    /\ [](op = "train" /\ pc = "failed" =>
              state = Replay(epoch * Len(train_loader) + batch_idx))
    /\ [][op = "train" /\ pc = "failed" => UNCHANGED vars]_vars

\* A train step that raised in the second epoch, after completed steps.
C14_Witness ==
    /\ op = "train"
    /\ pc = "failed"
    /\ epoch >= 1
    /\ batch_idx < Len(train_loader)
    /\ state[0] # <<>>

\* The validation losses computed so far: those of the epochs that saved and
\* that of the epoch whose save is pending or failed.
AllValLosses ==
    {saves[k].val_loss : k \in DOMAIN saves}
        \cup (IF evals > Len(saves) THEN {val_loss} ELSE {})

Min(S) == CHOOSE m \in S : \A n \in S : m <= n

\* C15: best_val_loss starts at infinity, never increases, is at all times
\* the least of infinity and the validation losses computed so far, stays
\* infinite when train has no validation loader, and is not touched by a
\* call of evaluate made by the user.
C15_BestValLoss ==
    /\ [](/\ best_val_loss = Min({Infinity} \cup AllValLosses)
          /\ val_loader.is_none => best_val_loss = Infinity)
    /\ [][/\ best_val_loss' <= best_val_loss
          /\ (pc = "evaluate_direct" \/ pc' = "evaluate_direct") =>
                 UNCHANGED best_val_loss]_vars

\* Two validated epochs, the second with the larger loss, then a call of
\* evaluate by the user.
C15_Witness ==
    /\ op = "train"
    /\ pc = "evaluated"
    /\ Len(saves) = 2
    /\ saves[2].val_loss > saves[1].val_loss
    /\ best_val_loss = saves[1].val_loss

\* C16: in generate_batch, once every row of the batch has emitted end_token
\* at some step, at the same step or not, no further decoding step runs.
C16_HaltsOnceAllFinished ==
    [][(/\ op = "generate_batch"
        /\ pc = "loop"
        /\ \A b \in DOMAIN decoder_input : Finished(b)) =>
            decoder_passes' = decoder_passes]_vars

\* The output of GPT4Block named "block" on the hidden state "x", written
\* out sub-layer by sub-layer, when the term added after the second
\* self-attention sub-layer is the output of attention number which.
BlockOutput(which) ==
    LET cm  == causal_mask(blk_shape[1], blk_shape[2], blk_shape[2])
        det == ~training
        n1  == Apply1("block.norm1", "x")
        a1  == Attention("block.attention1", n1, cm).outputs
        x1  == Add(Dropout("block.dropout1", n1, det), a1)
        n2  == Apply1("block.norm2", x1)
        a2  == Attention("block.attention2", n2, cm).outputs
        x2  == Add(Dropout("block.dropout2", n2, det),
                   IF which = 1 THEN a1 ELSE a2)
        ff  == Apply1("block.feed_forward", Apply1("block.norm3", x2))
    IN  Add(Dropout("block.dropout3", ff, det), a2)

\* C17 as stated: the term added after the second self-attention sub-layer
\* of the block is the output of the first sub-layer, attention1.
C17_Original ==
    op = "block" => \A k \in DOMAIN blk_results :
        blk_results[k].x = BlockOutput(1)

\* C17: the term added after the second self-attention sub-layer of the
\* block is the output of that second sub-layer, attention2, which is also
\* the term added after the feed-forward sub-layer.
C17_SecondResidual ==
    op = "block" => \A k \in DOMAIN blk_results :
        blk_results[k].x = BlockOutput(2)

\* A block applied in training mode to a sequence of several positions.
C17_Witness ==
    /\ op = "block"
    /\ pc = "done"
    /\ training
    /\ blk_shape[2] >= 2
    /\ Len(blk_results) >= 1

(***************************************************************************)
(* Properties of the attention function.                                   *)
(***************************************************************************)
\* C18: the head split keeps positions apart: element (b, h, s, d) of the
\* per-head query is element (b, s, h * head_dim + d) of the query, so a
\* head at position s reads the hidden vector of position s only.
C18_HeadSplit ==
    (op = "attention" /\ pc = "done") =>
        \A b \in 0 .. (query_shape[1] - 1), h \in 0 .. (self_num_heads - 1),
           s \in 0 .. (query_shape[2] - 1), d \in 0 .. (head_dim - 1) :
            query_heads[<<b, h, s, d>>] = query[<<b, s, h * head_dim + d>>]

\* C19: the scores are divided by the square root of the per-head dimension:
\* the square of the divisor is hidden_dim / num_heads.
C19_ScoreScale ==
    (op = "attention" /\ pc = "done") =>
        dim_key = query_shape[3] \div self_num_heads

====
